---- MODULE Spec2Model ----
(***************************************************************************)
(* etgtools/pi_generator.py: the section merge writer (writeSection) and   *)
(* the dispatch tree walker (generateModule and the generateXxx handlers)  *)
(* of PiWrapperGenerator.                                                  *)
(*                                                                         *)
(* A text is a sequence of tokens.  "\n" is the newline; a section marker  *)
(* is the three tokens '#-- begin-', <name>, ' --#' that the % formatting  *)
(* of writeSection produces; "#" is a comment sign; every other token is   *)
(* text that holds neither a newline nor a leading '#'.                    *)
(***************************************************************************)
EXTENDS Integers, Sequences, FiniteSets, TLC

VARIABLES
    fileExists,   \* os.path.exists(destFile)
    fileText,     \* the content of destFile
    prevText,     \* the content of destFile before the last writeSection call
    lines,        \* the list writeSection handed to f.writelines in the last call
    lastCall,     \* the arguments of the last writeSection call
    nCalls,       \* number of writeSection calls made so far
    repeated,     \* the last call had the arguments of the call before it
    bodies,       \* section name -> the body last written for it (<<"-">> : none yet)
    module,       \* the ModuleDef handed to generate
    stream,       \* the Utf8EncodingStream of generate: the chunks written, in order
    status,       \* "idle" before generate, "done" when it returned, "aborted" when it raised
    before        \* the destination file when generate was called: [exists, text]

fileVars == <<fileExists, fileText, prevText, lines, lastCall, nCalls, repeated, bodies>>
walkVars == <<module, stream, status, before>>
vars == <<fileVars, walkVars>>

-----------------------------------------------------------------------------
(* Bounds *)

MaxLines == 3        \* lines of the destination file before the first call
MaxBodyLines == 1    \* lines of a section body
MaxCalls == 2        \* writeSection calls in one behaviour
MaxOverloads == 2    \* alternates in an overload chain

-----------------------------------------------------------------------------
(* Text helpers: str.startswith, file.readlines, file.writelines, slices *)

NL == "\n"

Max(a, b) == IF a >= b THEN a ELSE b
Min(a, b) == IF a <= b THEN a ELSE b

\* tokens whose text starts with the character '#'
HashTokens == {"#", "#-- begin-", "#-- end-"}

\* line.startswith(prefix) for a token sequence prefix
startswith(line, prefix) ==
    /\ Len(line) >= Len(prefix)
    /\ SubSeq(line, 1, Len(prefix)) = prefix

\* line.startswith('#')
startswithHash(line) == line # <<>> /\ line[1] \in HashTokens

\* fid.readlines(): split after every newline, the newline kept
RECURSIVE readlines(_)
readlines(text) ==
    IF text = <<>> THEN <<>>
    ELSE LET nls == {i \in 1..Len(text) : text[i] = NL}
         IN IF nls = {} THEN <<text>>
            ELSE LET k == CHOOSE i \in nls : \A j \in nls : i <= j
                 IN <<SubSeq(text, 1, k)>> \o readlines(SubSeq(text, k + 1, Len(text)))

\* f.writelines(lines): the concatenation, nothing added
RECURSIVE writelines(_)
writelines(ls) ==
    IF ls = <<>> THEN <<>> ELSE Head(ls) \o writelines(Tail(ls))

\* lst[start:stop+1] = new: the slice taken one element too long
SliceAssignInclusive(lst, start, stop, new) ==
    LET n == Len(lst)
        clip(i) == IF i < 0 THEN Max(i + n, 0) ELSE Min(i, n)
        s == clip(start)
        e == Max(clip(stop + 1), s)
    IN SubSeq(lst, 1, s) \o new \o SubSeq(lst, e + 1, n)

\* Python's lst[start:stop] = new, indices 0-based, negative ones counted from the end
SliceAssign(lst, start, stop, new) ==
    LET n == Len(lst)
        clip(i) == IF i < 0 THEN Max(i + n, 0) ELSE Min(i, n)
        s == clip(start)
        e == Max(clip(stop), s)
    IN SubSeq(lst, 1, s) \o new \o SubSeq(lst, e + 1, n)

-----------------------------------------------------------------------------
(* writeSection *)

sectionBeginMarker(sectionName) == <<"#-- begin-", sectionName, " --#">>
sectionEndMarker(sectionName) == <<"#-- end-", sectionName, " --#">>

\* the scan loop: the index (0-based) of the last line that starts with marker, or -1
LastLineWith(ls, marker) ==
    LET hits == {i \in 1..Len(ls) : startswith(ls[i], marker)}
    IN IF hits = {} THEN -1
       ELSE (CHOOSE i \in hits : \A j \in hits : j <= i) - 1

sectionBeginLine(ls, sectionName) == LastLineWith(ls, sectionBeginMarker(sectionName))
sectionEndLine(ls, sectionName) == LastLineWith(ls, sectionEndMarker(sectionName))

\* "Skip the header": idx after  idx = 0; for idx, line in enumerate(lines): if not '#': break
HeaderIdx(ls) ==
    LET stops == {i \in 1..Len(ls) : ~startswithHash(ls[i])}
    IN IF ls = <<>> THEN 0
       ELSE IF stops = {} THEN Len(ls) - 1
       ELSE (CHOOSE i \in stops : \A j \in stops : i <= j) - 1

\* the three list elements of a new section
NewSection(sectionName, sectionText) ==
    << sectionBeginMarker(sectionName) \o <<NL>>,
       sectionText,
       sectionEndMarker(sectionName) \o <<NL>> >>

\* the list `lines` at the end of writeSection, from the list read
writeSectionLines(ls, sectionName, sectionText, at_end) ==
    LET b == sectionBeginLine(ls, sectionName)
        e == sectionEndLine(ls, sectionName)
    IN IF b = -1
       THEN IF at_end
            THEN ls \o NewSection(sectionName, sectionText)
            ELSE LET idx == HeaderIdx(ls)
                 IN SliceAssign(ls, idx + 1, idx + 1, NewSection(sectionName, sectionText))
       ELSE SliceAssign(ls, b + 1, e, <<sectionText>>)

\* the content of destFile after writeSection, from its content before
writeSection(text, sectionName, sectionText, at_end) ==
    writelines(writeSectionLines(readlines(text), sectionName, sectionText, at_end))

-----------------------------------------------------------------------------
(* The extraction tree.  A node is a record
     kind         the node's class in etgtools.extractors
     id           the text that identifies the node in the output (its argument
                  string, its value, its code): unique within one tree
     name, pyName
     flags        the attributes that are set, a subset of NodeFlags
     protection   "public", "protected" or "private"
     overloads    the alternates of a FunctionDef or MethodDef
     items        the members of a class, the values of an enum
     innerclasses the nested classes of a ClassDef                            *)

NodeFlags == {"ignored", "piIgnored", "isCtor", "isDtor", "isStatic",
              "docAsClass", "template", "briefDoc", "deprecated", "quoted"}

\* the order of a PyCodeDef that has none (Python's None)
NoOrder == -1

Node(kind, id, name, pyName, flags, protection, overloads, items, innerclasses) ==
    [kind |-> kind, id |-> id, name |-> name, pyName |-> pyName, flags |-> flags,
     protection |-> protection, overloads |-> overloads, items |-> items,
     innerclasses |-> innerclasses, order |-> NoOrder]

WithOrder(node, order) == [node EXCEPT !.order = order]

ignored(obj) == "ignored" \in obj.flags
piIgnored(obj) == "piIgnored" \in obj.flags
isCtor(obj) == "isCtor" \in obj.flags
isDtor(obj) == "isDtor" \in obj.flags
isStatic(obj) == "isStatic" \in obj.flags
pyDocstring(obj) == "doc:" \o obj.id

\* isinstance(obj, extractors.MethodDef): CppMethodDef and CppMethodDef_sip derive from it
IsMethodDef(obj) == obj.kind \in {"MethodDef", "CppMethodDef", "CppMethodDef_sip"}
IsEnumDef(obj) == obj.kind = "EnumDef"

\* FunctionDef.hasOverloads(): some alternate is not ignored
hasOverloads(function) ==
    \E i \in 1..Len(function.overloads) : ~ignored(function.overloads[i])

\* FunctionDef.all(): the node and its alternates
all(function) == <<function>> \o function.overloads

\* tweaker_tools.magicMethods: C++ operator names to Python special method names
magicMethods(name) ==
    IF name = "operator!=" THEN "__ne__"
    ELSE IF name = "operator==" THEN "__eq__"
    ELSE name

\* FixWxPrefix.fixWxPrefix: the leading 'wx' of a name dropped
fixWxPrefix(name) ==
    IF name = "wxColour" THEN "Colour"
    ELSE IF name = "wxColourFlags" THEN "ColourFlags"
    ELSE name

\* '@' in enum.name or not enum.name
IsAnonymousName(name) == name \in {"", "@1"}
\* enum.name.replace('@', '').strip()
StripAt(name) == IF name = "@1" THEN "1" ELSE name
\* 'Flags' in enum_name
HasFlags(name) == name \in {"_ColourFlags", "_wxColourFlags"}

-----------------------------------------------------------------------------
(* The stream: one record per chunk of text written.  `id` names the node the
   chunk is written for, `indent` counts the indentation steps of four blanks. *)

Chunk(what, id, name, body, indent) ==
    [what |-> what, id |-> id, name |-> name, body |-> body, indent |-> indent]

Overload(indent) == Chunk("@overload", "", "", "", indent)

\* A handler's outcome: the chunks it wrote and whether it returned (ok) or raised
Ok(out) == [out |-> out, ok |-> TRUE]
KeyError == [out |-> <<>>, ok |-> FALSE]
Then(r1, r2) == IF r1.ok THEN [out |-> r1.out \o r2.out, ok |-> r2.ok] ELSE r1

-----------------------------------------------------------------------------
(* generateFunction, generateMethod *)

RECURSIVE generateFunction(_, _), generateFunctionOverloads(_)

\* for f in function.overloads: self.generateFunction(f, stream, True)
generateFunctionOverloads(fs) ==
    IF fs = <<>> THEN <<>>
    ELSE generateFunction(Head(fs), TRUE) \o generateFunctionOverloads(Tail(fs))

\* generateFunction with the last signature of a chain left without the marker
generateFunctionLastUnmarked(function, is_overload) ==
    IF function.pyName = "" THEN <<>>
    ELSE (IF ~is_overload /\ hasOverloads(function)
             THEN generateFunctionOverloads(function.overloads)
             ELSE IF is_overload THEN <<Overload(0)>> ELSE <<>>)
         \o <<Chunk("def", function.id, function.pyName,
                    IF is_overload THEN "..." ELSE pyDocstring(function), 0)>>

generateFunction(function, is_overload) ==
    IF function.pyName = "" THEN <<>>
    ELSE (IF ~is_overload /\ hasOverloads(function)
             THEN generateFunctionOverloads(function.overloads) \o <<Overload(0)>>
             ELSE IF is_overload THEN <<Overload(0)>> ELSE <<>>)
         \o <<Chunk("def", function.id, function.pyName,
                    IF is_overload THEN "..." ELSE pyDocstring(function), 0)>>

\* the loop over method.all(): the position of the first m with
\* `not m.ignored or piIgnored(m)`, 0 when the loop runs into its else
FirstSelected(method) ==
    LET ms == all(method)
        sel == {i \in 1..Len(ms) : (~ignored(ms[i])) \/ piIgnored(ms[i])}
    IN IF sel = {} THEN 0 ELSE CHOOSE i \in sel : \A j \in sel : i <= j

RECURSIVE generateMethod(_, _, _, _, _), generateMethodOverloads(_, _, _)

\* for m in method.overloads: self.generateMethod(m, stream, indent, name, None, True)
generateMethodOverloads(ms, indent, name) ==
    IF ms = <<>> THEN <<>>
    ELSE generateMethod(Head(ms), indent, name, "", TRUE)
            \o generateMethodOverloads(Tail(ms), indent, name)

\* name and docstring are "" where the code passes None
generateMethod(method0, indent, name0, docstring0, is_overload) ==
    IF FirstSelected(method0) = 0 THEN <<>>
    ELSE LET method == all(method0)[FirstSelected(method0)]
             name == magicMethods(IF name0 # "" THEN name0
                                  ELSE IF method.pyName # "" THEN method.pyName
                                  ELSE method.name)
             docstring == IF docstring0 # "" THEN docstring0 ELSE pyDocstring(method)
         IN IF isDtor(method) THEN <<>>
            ELSE (IF ~is_overload /\ hasOverloads(method)
                     THEN generateMethodOverloads(method.overloads, indent, name)
                             \o <<Overload(indent)>>
                     ELSE IF is_overload THEN <<Overload(indent)>> ELSE <<>>)
                 \o (IF isStatic(method)
                        THEN <<Chunk("@staticmethod", "", "", "", indent)>> ELSE <<>>)
                 \o <<Chunk("def", method.id, name,
                            IF is_overload THEN "..." ELSE docstring, indent)>>

generateCppMethod(method, indent) == generateMethod(method, indent, "", "", FALSE)
generateCppMethod_sip(method, indent) == generateMethod(method, indent, "", "", FALSE)

-----------------------------------------------------------------------------
(* The handlers of the other node kinds *)

RECURSIVE EnumValues(_, _, _, _)
\* for v in enum.items: if v.ignored or piIgnored(v): continue; write one line
EnumValues(vs, what, enum_name, indent) ==
    IF vs = <<>> THEN <<>>
    ELSE (IF ignored(Head(vs)) \/ piIgnored(Head(vs)) THEN <<>>
          ELSE <<Chunk(what, Head(vs).id,
                       IF Head(vs).pyName # "" THEN Head(vs).pyName ELSE Head(vs).name,
                       enum_name, indent)>>)
         \o EnumValues(Tail(vs), what, enum_name, indent)

\* generateEnum with the rebinding loop tied to the alias
generateEnumRebindingNamedOnly(enum, indent) ==
    IF ignored(enum) \/ piIgnored(enum) THEN <<>>
    ELSE LET alias == IF IsAnonymousName(enum.name) THEN "" ELSE fixWxPrefix(enum.name)
             enum_name == IF IsAnonymousName(enum.name)
                          THEN "_enum_" \o StripAt(enum.name)
                          ELSE "_" \o alias
             enum_type == IF HasFlags(enum_name) THEN "IntFlag" ELSE "IntEnum"
         IN <<Chunk("class", enum.id, enum_name, enum_type, indent)>>
            \o EnumValues(enum.items, "auto", enum_name, indent + 1)
            \o (IF alias # ""
                THEN <<Chunk("TypeAlias", enum.id, alias, enum_name, indent)>>
                     \o EnumValues(enum.items, "rebind", enum_name, indent)
                ELSE <<>>)

generateEnum(enum, indent) ==
    IF ignored(enum) \/ piIgnored(enum) THEN <<>>
    ELSE LET alias == IF IsAnonymousName(enum.name) THEN "" ELSE fixWxPrefix(enum.name)
             enum_name == IF IsAnonymousName(enum.name)
                          THEN "_enum_" \o StripAt(enum.name)
                          ELSE "_" \o alias
             enum_type == IF HasFlags(enum_name) THEN "IntFlag" ELSE "IntEnum"
         IN <<Chunk("class", enum.id, enum_name, enum_type, indent)>>
            \o EnumValues(enum.items, "auto", enum_name, indent + 1)
            \o (IF alias # "" THEN <<Chunk("TypeAlias", enum.id, alias, enum_name, indent)>>
                ELSE <<>>)
            \o EnumValues(enum.items, "rebind", enum_name, indent)

generateGlobalVar(globalVar) ==
    IF ignored(globalVar) \/ piIgnored(globalVar) THEN <<>>
    ELSE <<Chunk("var", globalVar.id,
                 IF globalVar.pyName # "" THEN globalVar.pyName ELSE globalVar.name,
                 "Any", 0)>>

generateDefine(define) ==
    IF ignored(define) \/ piIgnored(define) THEN <<>>
    ELSE <<Chunk("var", define.id,
                 IF define.pyName # "" THEN define.pyName ELSE define.name,
                 IF "quoted" \in define.flags THEN "str" ELSE "int", 0)>>

generateTypedef(typedef, indent) ==
    IF ignored(typedef) \/ piIgnored(typedef) THEN <<>>
    ELSE IF "template" \notin typedef.flags /\ "docAsClass" \notin typedef.flags THEN <<>>
    ELSE <<Chunk("class", typedef.id, fixWxPrefix(typedef.name),
                 IF "briefDoc" \in typedef.flags THEN "briefDoc" ELSE "pass", indent)>>

generateWigCode(wig, indent) == <<>>

generatePyCode(pc, indent) == <<Chunk("code", pc.id, "", "", indent)>>

generatePyFunction(pf, indent) ==
    (IF "deprecated" \in pf.flags THEN <<Chunk("@wx.deprecated", "", "", "", indent)>>
     ELSE <<>>)
    \o (IF isStatic(pf) THEN <<Chunk("@staticmethod", "", "", "", indent)>> ELSE <<>>)
    \o <<Chunk("def", pf.id, pf.name,
               IF "briefDoc" \in pf.flags THEN "briefDoc" ELSE "pass", indent)>>

generateMemberVar(memberVar, indent) ==
    IF ignored(memberVar) \/ piIgnored(memberVar) THEN <<>>
    ELSE <<Chunk("var", memberVar.id, memberVar.name, "Any", indent)>>

\* _generateProperty, for a property that has a getter
generateProperty(prop, indent) ==
    IF ignored(prop) \/ piIgnored(prop) THEN <<>>
    ELSE <<Chunk("property", prop.id, prop.name, "", indent)>>

generatePyProperty(prop, indent) == generateProperty(prop, indent)

generatePyMethod(pm, indent) ==
    IF ignored(pm) \/ piIgnored(pm) THEN <<>>
    ELSE (IF isStatic(pm) THEN <<Chunk("@staticmethod", "", "", "", indent)>> ELSE <<>>)
         \o <<Chunk("def", pm.id, pm.name, pyDocstring(pm), indent)>>

RECURSIVE generatePyClass(_, _), generatePyClassItems(_, _)

\* for item in pc.items: f = dispatch[item.__class__]; f(item, stream, indent2)
generatePyClassItems(its, indent2) ==
    IF its = <<>> THEN Ok(<<>>)
    ELSE Then(CASE Head(its).kind = "PyFunctionDef" -> Ok(generatePyFunction(Head(its), indent2))
                [] Head(its).kind = "PyPropertyDef" -> Ok(generatePyProperty(Head(its), indent2))
                [] Head(its).kind = "PyCodeDef" -> Ok(generatePyCode(Head(its), indent2))
                [] Head(its).kind = "PyClassDef" -> generatePyClass(Head(its), indent2)
                [] OTHER -> KeyError,
              generatePyClassItems(Tail(its), indent2))

generatePyClass(pc, indent) ==
    Then(Ok((IF "deprecated" \in pc.flags
                THEN <<Chunk("@wx.deprecated", "", "", "", indent)>> ELSE <<>>)
            \o <<Chunk("class", pc.id, pc.name,
                       IF "briefDoc" \in pc.flags THEN "briefDoc" ELSE "", indent)>>),
         generatePyClassItems(pc.items, indent + 1))

-----------------------------------------------------------------------------
(* generateClass *)

\* f = dispatch[item.__class__]; f(item, stream, indent2)   (the table of generateClass)
ClassDispatch(item, indent2) ==
    CASE item.kind = "MemberVarDef" -> Ok(generateMemberVar(item, indent2))
      [] item.kind = "TypedefDef" -> Ok(<<>>)
      [] item.kind = "PropertyDef" -> Ok(generateProperty(item, indent2))
      [] item.kind = "PyPropertyDef" -> Ok(generatePyProperty(item, indent2))
      [] item.kind = "MethodDef" -> Ok(generateMethod(item, indent2, "", "", FALSE))
      [] item.kind = "EnumDef" -> Ok(generateEnum(item, indent2))
      [] item.kind = "CppMethodDef" -> Ok(generateCppMethod(item, indent2))
      [] item.kind = "CppMethodDef_sip" -> Ok(generateCppMethod_sip(item, indent2))
      [] item.kind = "PyMethodDef" -> Ok(generatePyMethod(item, indent2))
      [] item.kind = "PyCodeDef" -> Ok(generatePyCode(item, indent2))
      [] item.kind = "WigCode" -> Ok(generateWigCode(item, indent2))
      [] OTHER -> KeyError

RECURSIVE ClassDispatchAll(_, _)
ClassDispatchAll(its, indent2) ==
    IF its = <<>> THEN Ok(<<>>)
    ELSE Then(ClassDispatch(Head(its), indent2), ClassDispatchAll(Tail(its), indent2))

RECURSIVE ClassEnums(_, _)
ClassEnums(enums, indent2) ==
    IF enums = <<>> THEN <<>>
    ELSE generateEnum(Head(enums), indent2) \o ClassEnums(Tail(enums), indent2)

RECURSIVE ClassCtors(_, _, _)
\* for item in ctors: if item.isCtor: generateMethod(item, ..., name='__init__', docstring=...)
ClassCtors(ctors, klass, indent2) ==
    IF ctors = <<>> THEN <<>>
    ELSE (IF isCtor(Head(ctors))
             THEN generateMethod(Head(ctors), indent2, "__init__", pyDocstring(klass), FALSE)
             ELSE <<>>)
         \o ClassCtors(Tail(ctors), klass, indent2)

RECURSIVE generateClass(_, _), generateInnerClasses(_, _)

generateInnerClasses(ks, indent2) ==
    IF ks = <<>> THEN Ok(<<>>)
    ELSE Then(generateClass(Head(ks), indent2), generateInnerClasses(Tail(ks), indent2))

generateClass(klass, indent) ==
    IF ignored(klass) \/ piIgnored(klass) THEN Ok(<<>>)
    ELSE LET klassName == IF klass.pyName # "" THEN klass.pyName ELSE klass.name
             indent2 == indent + 1
             IsEnum(i) == IsEnumDef(i) /\ i.protection = "public"
             IsCtor(i) == IsMethodDef(i) /\ i.protection = "public"
                             /\ (isCtor(i) \/ isDtor(i))
             enums == SelectSeq(klass.items, IsEnum)
             ctors == SelectSeq(klass.items, IsCtor)
             IsPublic(i) == i.protection = "public" /\ ~IsCtor(i) /\ ~IsEnum(i)
             IsProtected(i) == i.protection = "protected"
             public == SelectSeq(klass.items, IsPublic)
             protected == SelectSeq(klass.items, IsProtected)
         IN Then(Ok(<<Chunk("class", klass.id, klassName, pyDocstring(klass), indent)>>),
            Then(generateInnerClasses(klass.innerclasses, indent2),
            Then(Ok(ClassEnums(enums, indent2)),
            Then(Ok(ClassCtors(ctors, klass, indent2)),
            Then(ClassDispatchAll(public, indent2),
            Then(ClassDispatchAll(protected, indent2),
                 Ok(<<Chunk("end of class", klass.id, klassName, "", indent)>>)))))))

-----------------------------------------------------------------------------
(* generateModule, generate *)

Module(name, imports, items) ==
    [name |-> name, docstring |-> "", imports |-> imports, items |-> items]

NoModule == Module("", <<>>, <<>>)

RECURSIVE WriteImports(_)
\* for item in module.imports: strip the '_', skip 'core', write 'import wx.<item>'
WriteImports(imports) ==
    IF imports = <<>> THEN <<>>
    ELSE LET item == IF Head(imports) = "_core" THEN "core"
                     ELSE IF Head(imports) = "_adv" THEN "adv"
                     ELSE Head(imports)
         IN (IF item = "core" THEN <<>> ELSE <<Chunk("import", "", item, "", 0)>>)
            \o WriteImports(Tail(imports))

\* module.items with the PyCodeDef items that have an order moved to the front
HoistPyCode(items) ==
    LET Hoisted(i) == i.kind = "PyCodeDef" /\ i.order # NoOrder
        Rest(i) == ~Hoisted(i)
    IN SelectSeq(items, Hoisted) \o SelectSeq(items, Rest)

\* function = methodMap[item.__class__]; function(item, stream)
ModuleDispatch(item) ==
    CASE item.kind = "ClassDef" -> generateClass(item, 0)
      [] item.kind = "DefineDef" -> Ok(generateDefine(item))
      [] item.kind = "FunctionDef" -> Ok(generateFunction(item, FALSE))
      [] item.kind = "EnumDef" -> Ok(generateEnum(item, 0))
      [] item.kind = "GlobalVarDef" -> Ok(generateGlobalVar(item))
      [] item.kind = "TypedefDef" -> Ok(generateTypedef(item, 0))
      [] item.kind = "WigCode" -> Ok(generateWigCode(item, 0))
      [] item.kind = "PyCodeDef" -> Ok(generatePyCode(item, 0))
      [] item.kind = "PyFunctionDef" -> Ok(generatePyFunction(item, 0))
      [] item.kind = "PyClassDef" -> generatePyClass(item, 0)
      [] item.kind = "CppMethodDef" -> Ok(generateCppMethod(item, 0))
      [] item.kind = "CppMethodDef_sip" -> Ok(generateCppMethod_sip(item, 0))
      [] OTHER -> KeyError

\* the item loop with a kind that has no handler skipped instead of raising
ModuleItemSkippingUnknown(item) ==
    IF ignored(item) \/ piIgnored(item) THEN Ok(<<>>)
    ELSE IF ModuleDispatch(item).ok THEN ModuleDispatch(item)
    ELSE Ok(ModuleDispatch(item).out)

\* one round of `for item in module:` of generateModule
ModuleItem(item) ==
    IF ignored(item) \/ piIgnored(item) THEN Ok(<<>>) ELSE ModuleDispatch(item)

RECURSIVE ModuleItems(_)
ModuleItems(items) ==
    IF items = <<>> THEN Ok(<<>>)
    ELSE Then(ModuleItem(Head(items)), ModuleItems(Tail(items)))

generateModule(m) ==
    Then(Ok(WriteImports(m.imports)), ModuleItems(HoistPyCode(m.items)))

SKIP_PI_FILE == TRUE
SKIP_PYI_FILE == FALSE

HeaderCommentLines == 17
TypingImportLines == 9

RECURSIVE Repeat(_, _)
Repeat(text, n) == IF n = 0 THEN <<>> ELSE text \o Repeat(text, n - 1)

\* the comment lines of the header and the empty line that ends it
header_pyi == Repeat(<<"#", NL>>, HeaderCommentLines) \o <<NL>>

\* the import lines and the empty line that ends them
typing_imports == Repeat(<<"import", NL>>, TypingImportLines) \o <<NL>>

\* stream.getvalue(): the text of the chunks
RECURSIVE getvalue(_)
getvalue(chunks) ==
    IF chunks = <<>> THEN <<>>
    ELSE LET c == Head(chunks)
         IN (CASE c.what \in {"@overload", "@staticmethod"} -> <<NL, c.what>>
               [] c.what = "@wx.deprecated" -> <<c.what, NL>>
               [] c.what = "def" -> <<NL, "def", c.name, c.id, NL, c.body, NL>>
               [] c.what = "class" -> <<NL, "class", c.name, NL, c.body, NL>>
               [] c.what = "end of class" -> <<"#", "end of class", c.name, NL, NL>>
               [] c.what = "code" -> <<NL, c.id, NL>>
               [] OTHER -> <<c.what, c.name, c.body, NL>>)
            \o getvalue(Tail(chunks))

\* _checkAndWriteHeader: the file's content once it exists
checkAndWriteHeader(exists, text, header, docstring) ==
    IF exists THEN text
    ELSE header \o (IF docstring # "" THEN <<NL, "\"\"\"", NL, docstring, "\"\"\"", NL>>
                    ELSE <<>>)

-----------------------------------------------------------------------------
(* Inputs of the walker *)

Leaf(kind, id, name, flags) == Node(kind, id, name, "", flags, "public", <<>>, <<>>, <<>>)
Member(kind, id, name, flags, protection) ==
    Node(kind, id, name, "", flags, protection, <<>>, <<>>, <<>>)
Class(id, name, flags, items, innerclasses) ==
    Node("ClassDef", id, name, "", flags, "public", <<>>, items, innerclasses)

SigFlags == {{}, {"ignored"}, {"piIgnored"}, {"ignored", "piIgnored"}}
AltFlags == {{}, {"ignored"}, {"piIgnored"}}

\* the overload chains of at most MaxOverloads alternates: signature i has id "s<i>"
AlternateSeqs(kind, name, pyName, role, protection) ==
    UNION { { [i \in 1..n |-> Node(kind, "s" \o ToString(i), name, pyName,
                                   role \cup fs[i], protection, <<>>, <<>>, <<>>)] :
                fs \in [1..n -> AltFlags] } : n \in 0..MaxOverloads }

Chains(kind, name, pyName, role, protection) ==
    { Node(kind, "s0", name, pyName, role \cup pf, protection, alts, <<>>, <<>>) :
        pf \in SigFlags, alts \in AlternateSeqs(kind, name, pyName, role, protection) }

Functions ==
    Chains("FunctionDef", "wxf", "f", {}, "public")
    \cup Chains("CppMethodDef", "g", "", {}, "public")
    \cup { Node("FunctionDef", "s0", "wxf", "", {}, "public",
                <<Leaf("FunctionDef", "s1", "wxf", {})>>, <<>>, <<>>),
           Node("FunctionDef", "s0", "wxf", "f", {}, "public",
                <<Leaf("FunctionDef", "s1", "wxf", {}),
                  Node("FunctionDef", "s2", "wxf", "f", {}, "public", <<>>, <<>>, <<>>)>>,
                <<>>, <<>>) }

MethodName(role) ==
    IF "isCtor" \in role THEN "wxColour"
    ELSE IF "isDtor" \in role THEN "~wxColour"
    ELSE IF "isStatic" \in role THEN "Make"
    ELSE "Get"

Methods ==
    UNION { Chains("MethodDef", MethodName(role), "", role, protection) :
              role \in {{}, {"isCtor"}, {"isDtor"}, {"isStatic"}},
              protection \in {"public", "protected"} }

MethodClasses == { Class("K", "wxColour", {}, <<m>>, <<>>) : m \in Methods }

EnumValues2(id) ==
    << Leaf("EnumValueDef", id \o ".1", "RED", {}),
       Leaf("EnumValueDef", id \o ".2", "GREEN", {"ignored"}),
       Node("EnumValueDef", id \o ".3", "wxBLUE", "BLUE", {}, "public", <<>>, <<>>, <<>>) >>

OtherItems ==
    { Node("EnumDef", "e1", "wxColourFlags", "", {}, "public", <<>>, EnumValues2("e1"), <<>>),
      Node("EnumDef", "e2", "@1", "", {}, "public", <<>>, EnumValues2("e2"), <<>>),
      Node("EnumDef", "e4", "", "", {}, "public", <<>>, EnumValues2("e4"), <<>>),
      Node("EnumDef", "e3", "wxColour", "", {"piIgnored"}, "public", <<>>,
           EnumValues2("e3"), <<>>),
      Leaf("DefineDef", "d1", "wxID", {"quoted"}),
      Leaf("DefineDef", "d2", "wxID", {"ignored"}),
      Leaf("GlobalVarDef", "v1", "wxNull", {}),
      Leaf("GlobalVarDef", "v2", "wxNull", {"piIgnored"}),
      Leaf("TypedefDef", "t1", "wxColour", {"template", "briefDoc"}),
      Leaf("TypedefDef", "t2", "wxColour", {"docAsClass"}),
      Leaf("TypedefDef", "t3", "wxColour", {}),
      Leaf("WigCode", "w1", "", {}),
      Leaf("PyCodeDef", "c1", "", {}),
      WithOrder(Leaf("PyCodeDef", "c2", "", {}), 1),
      WithOrder(Leaf("PyCodeDef", "c4", "", {}), 2),
      Leaf("PyCodeDef", "c3", "", {"ignored"}),
      Leaf("PyFunctionDef", "pf1", "helper", {"deprecated", "briefDoc"}),
      Node("PyClassDef", "pc1", "Helper", "", {"briefDoc"}, "public", <<>>,
           << Leaf("PyFunctionDef", "pc1.1", "run", {"isStatic"}),
              Leaf("PyPropertyDef", "pc1.2", "Value", {"ignored"}),
              Leaf("PyCodeDef", "pc1.3", "", {}) >>, <<>>),
      Node("PyClassDef", "pc2", "Helper", "", {}, "public", <<>>,
           << Leaf("PyFunctionDef", "pc2.1", "run", {}),
              Leaf("PyMethodDef", "pc2.2", "walk", {}) >>, <<>>),
      Leaf("MethodDef", "u1", "Get", {}),
      Leaf("PropertyDef", "u2", "Value", {"ignored"}),
      Class("k1", "wxColour", {},
            << Node("EnumDef", "k1.1", "wxColourFlags", "", {}, "public", <<>>,
                    EnumValues2("k1.1"), <<>>),
               Member("MemberVarDef", "k1.2", "m_x", {}, "public"),
               Member("PropertyDef", "k1.3", "Value", {"piIgnored"}, "public"),
               Member("PyMethodDef", "k1.4", "walk", {"ignored"}, "protected"),
               Member("TypedefDef", "k1.5", "T", {}, "public"),
               Member("MethodDef", "k1.6", "operator==", {}, "public"),
               Member("GlobalVarDef", "k1.7", "x", {}, "private") >>,
            << Class("k1.8", "Inner", {}, <<Member("MethodDef", "k1.9", "Get", {}, "public")>>,
                     <<>>) >>),
      Class("k2", "wxColour", {},
            << Member("MethodDef", "k2.1", "Get", {}, "public"),
               Member("PyCodeDef", "k2.2", "", {"ignored"}, "public"),
               Member("WigCode", "k2.3", "", {}, "protected") >>,
            << Class("k2.4", "Inner", {"ignored"},
                     <<Member("MethodDef", "k2.5", "Get", {}, "public")>>, <<>>) >>),
      Class("k3", "wxColour", {},
            << Member("MethodDef", "k3.1", "Get", {}, "public"),
               Member("GlobalVarDef", "k3.2", "x", {}, "public") >>, <<>>),
      Class("k4", "wxColour", {},
            << Member("MethodDef", "k4.1", "wxColour", {"isCtor"}, "public"),
               Member("FunctionDef", "k4.2", "f", {}, "protected") >>, <<>>),
      Class("k5", "wxColour", {"ignored"},
            << Member("MethodDef", "k5.1", "wxColour", {"isCtor"}, "public"),
               Member("ClassDef", "k5.2", "X", {}, "public") >>, <<>>),
      Class("k6", "wxColour", {},
            << Member("MethodDef", "k6.1", "Get", {}, "public") >>,
            << Class("k6.2", "Inner", {},
                     <<Member("DefineDef", "k6.3", "D", {}, "public")>>, <<>>) >>) }

\* PyCode items that carry an order, and items that stay where they are
OrderedPyCode == {i \in OtherItems : i.kind = "PyCodeDef" /\ i.order # NoOrder}
PlainItems == {i \in OtherItems : i.id \in {"d1", "v1", "c1"}}

Modules ==
    { Module("core", <<>>, <<a>>) : a \in Functions \cup MethodClasses }
    \cup { Module("core", <<"_core", "_adv">>, <<b>>) : b \in OtherItems }
    \cup { Module("core", <<"_adv">>, <<p[1], p[2]>>) :
             p \in {q \in OtherItems \X OtherItems : q[1] # q[2]} }
    \cup { Module("core", <<>>, <<p[1], p[2], p[3], p[4]>>) :
             p \in {q \in PlainItems \X OrderedPyCode \X PlainItems \X OrderedPyCode :
                       q[1] # q[3] /\ q[2] # q[4]} }

\* what a destination file holds when generate finds one: the header alone, or the
\* header and the sections of an earlier run
ExistingFiles ==
    { header_pyi,
      writeSection(writeSection(header_pyi, "typing-imports", typing_imports, FALSE),
                   "core", <<NL, "def", "f", "old", NL, "doc:old", NL>>, TRUE) }

-----------------------------------------------------------------------------
(* Inputs of the merge writer *)

SectionNames == {"typing-imports", "core"}

\* lines a destination file may hold before the first call
LineKinds(sectionName) ==
    { <<"x", NL>>, <<"#", NL>>,
      sectionBeginMarker(sectionName) \o <<NL>>,
      sectionEndMarker(sectionName) \o <<NL>> }

\* all sequences of at most n elements of S
RECURSIVE SeqsUpTo(_, _)
SeqsUpTo(S, n) ==
    IF n = 0 THEN {<<>>}
    ELSE LET shorter == SeqsUpTo(S, n - 1)
         IN shorter \cup {Append(s, x) : s \in shorter, x \in S}

\* files of at most n lines; the last line may lack its newline
FilesUpTo(sectionName, n) ==
    LET whole == {writelines(ls) : ls \in SeqsUpTo(LineKinds(sectionName), n)}
        cut == IF n = 0 THEN {}
               ELSE {writelines(ls) \o <<"x">> :
                        ls \in SeqsUpTo(LineKinds(sectionName), n - 1)}
    IN whole \cup cut

\* section bodies of at most n lines; the last line may lack its newline
BodiesUpTo(n) ==
    LET whole == {writelines(ls) : ls \in SeqsUpTo({<<"y", NL>>}, n)}
        cut == IF n = 0 THEN {}
               ELSE {writelines(ls) \o <<"y">> : ls \in SeqsUpTo({<<"y", NL>>}, n - 1)}
    IN whole \cup cut

NoCall == [sectionName |-> "", sectionText |-> <<>>, at_end |-> TRUE]
NoBody == <<"-">>

-----------------------------------------------------------------------------
(* The merge writer on one section of an arbitrary destination file *)

NoWalk ==
    /\ module = NoModule
    /\ stream = <<>>
    /\ status = "idle"
    /\ before = [exists |-> TRUE, text |-> <<>>]

Init ==
    /\ NoWalk
    /\ fileExists = TRUE
    /\ fileText \in FilesUpTo("core", MaxLines)
    /\ prevText = fileText
    /\ lines = <<>>
    /\ lastCall = NoCall
    /\ nCalls = 0
    /\ repeated = FALSE
    /\ bodies = [s \in SectionNames |-> NoBody]

WriteSection(sectionName, sectionText, at_end) ==
    /\ fileExists
    /\ nCalls < MaxCalls
    /\ LET call == [sectionName |-> sectionName, sectionText |-> sectionText,
                    at_end |-> at_end]
           new == writeSectionLines(readlines(fileText), sectionName, sectionText, at_end)
       IN /\ lines' = new
          /\ fileText' = writelines(new)
          /\ prevText' = fileText
          /\ repeated' = (nCalls > 0 /\ lastCall = call)
          /\ lastCall' = call
          /\ nCalls' = nCalls + 1
          /\ bodies' = [bodies EXCEPT ![sectionName] = sectionText]
    /\ UNCHANGED <<fileExists, walkVars>>

Next ==
    \E sectionText \in BodiesUpTo(MaxBodyLines), at_end \in BOOLEAN :
        WriteSection("core", sectionText, at_end)

Spec == Init /\ [][Next]_vars

-----------------------------------------------------------------------------
(* The merge writer on two sections of one file that starts without markers,
   every line of the file and of the bodies ending with a newline *)

PlainLines == { <<"x", NL>>, <<"#", NL>> }

InitSections ==
    /\ NoWalk
    /\ fileExists = TRUE
    /\ fileText \in {writelines(ls) : ls \in SeqsUpTo(PlainLines, MaxLines)}
    /\ prevText = fileText
    /\ lines = <<>>
    /\ lastCall = NoCall
    /\ nCalls = 0
    /\ repeated = FALSE
    /\ bodies = [s \in SectionNames |-> NoBody]

NextSections ==
    \E sectionName \in SectionNames,
       ls \in SeqsUpTo({<<"y", NL>>, <<"z", NL>>}, MaxBodyLines),
       at_end \in BOOLEAN :
        WriteSection(sectionName, writelines(ls), at_end)

SpecSections == InitSections /\ [][NextSections]_vars

-----------------------------------------------------------------------------
(* generate: one run on one module *)

InitGenerate ==
    /\ module \in Modules
    /\ stream = <<>>
    /\ status = "idle"
    /\ \/ fileExists = FALSE /\ fileText = <<>>
       \/ fileExists = TRUE /\ fileText \in ExistingFiles
    /\ before = [exists |-> fileExists, text |-> fileText]
    /\ prevText = fileText
    /\ lines = <<>>
    /\ lastCall = NoCall
    /\ nCalls = 0
    /\ repeated = FALSE
    /\ bodies = [s \in SectionNames |-> NoBody]

\* generate(module): the walk, then (for the .pyi file only, as SKIP_PI_FILE is set)
\* the header check and the two writeSection calls
Generate ==
    /\ status = "idle"
    /\ LET r == generateModule(module)
           text0 == checkAndWriteHeader(fileExists, fileText, header_pyi, module.docstring)
           text1 == writeSection(text0, "typing-imports", typing_imports, FALSE)
           body == getvalue(r.out)
           new == writeSectionLines(readlines(text1), module.name, body, TRUE)
       IN /\ stream' = r.out
          /\ IF r.ok /\ ~SKIP_PYI_FILE
             THEN /\ status' = "done"
                  /\ fileExists' = TRUE
                  /\ fileText' = writelines(new)
                  /\ prevText' = text1
                  /\ lines' = new
                  /\ lastCall' = [sectionName |-> module.name, sectionText |-> body,
                                  at_end |-> TRUE]
                  /\ nCalls' = nCalls + 2
                  /\ repeated' = FALSE
                  /\ bodies' = [bodies EXCEPT !["typing-imports"] = typing_imports,
                                              ![module.name] = body]
             ELSE /\ status' = IF r.ok THEN "done" ELSE "aborted"
                  /\ UNCHANGED fileVars
    /\ UNCHANGED <<module, before>>

NextGenerate == Generate

SpecGenerate == InitGenerate /\ [][NextGenerate]_vars

-----------------------------------------------------------------------------
(* Properties of the walker *)

Range(seq) == {seq[i] : i \in 1..Len(seq)}

Children(node) == Range(node.overloads) \cup Range(node.items) \cup Range(node.innerclasses)

\* a node and every node below it
RECURSIVE NodesBelow(_)
NodesBelow(node) == {node} \cup UNION {NodesBelow(c) : c \in Children(node)}

TreeNodes(m) == UNION {NodesBelow(i) : i \in Range(m.items)}

Flagged(node) == ignored(node) \/ piIgnored(node)

\* the classes whose body the walk enters
RECURSIVE ClassesBelow(_)
ClassesBelow(klass) ==
    IF Flagged(klass) THEN {}
    ELSE {klass} \cup UNION {ClassesBelow(k) : k \in Range(klass.innerclasses)}

ReachedClasses(m) ==
    UNION {ClassesBelow(i) : i \in {j \in Range(m.items) : j.kind = "ClassDef"}}

\* the functions and methods the walk hands to generateFunction or generateMethod
ReachedFunctions(m) ==
    {i \in Range(m.items) : i.kind = "FunctionDef" /\ ~Flagged(i)}
ReachedMethods(m) ==
    {i \in Range(m.items) : i.kind \in {"CppMethodDef", "CppMethodDef_sip"} /\ ~Flagged(i)}
    \cup UNION { {i \in Range(k.items) :
                     IsMethodDef(i) /\ i.protection \in {"public", "protected"}} :
                 k \in ReachedClasses(m) }

\* the positions in the stream of the def chunks written for the signatures of a chain
DefsOf(chain) ==
    LET ids == {sig.id : sig \in Range(all(chain))}
        IsDef(i) == stream[i].what = "def" /\ stream[i].id \in ids
    IN SelectSeq([i \in 1..Len(stream) |-> i], IsDef)

\* the def chunk at position i carries the overload marker
Marked(i) ==
    \/ i > 1 /\ stream[i - 1].what = "@overload"
    \/ i > 2 /\ stream[i - 1].what = "@staticmethod" /\ stream[i - 2].what = "@overload"

NotIgnored(sig) == ~Flagged(sig)

\* the chains the claim is about: handed to a handler, with two signatures or more
\* that are not ignored, the primary one among them, and something to emit
OverloadedChains ==
    { c \in ReachedFunctions(module) \cup ReachedMethods(module) :
        /\ NotIgnored(c)
        /\ Len(SelectSeq(all(c), NotIgnored)) >= 2
        /\ ~isDtor(c)
        /\ c.kind = "FunctionDef" => c.pyName # "" }

PlainChains ==
    { c \in OverloadedChains :
        \A sig \in Range(all(c)) :
            NotIgnored(sig) /\ (c.kind = "FunctionDef" => sig.pyName # "") }

IgnoredEmitNothing ==
    status = "done" =>
        \A n \in TreeNodes(module) :
            Flagged(n) =>
                \A d \in NodesBelow(n), i \in 1..Len(stream) : stream[i].id # d.id

\* C9: every constructor that is emitted is emitted under the name __init__, and
\* nothing is emitted for a destructor.
CtorsAreInit ==
    status = "done" =>
        \A n \in TreeNodes(module), i \in 1..Len(stream) :
            stream[i].id = n.id =>
                /\ isCtor(n) => stream[i].name = "__init__"
                /\ ~isDtor(n)

ModuleKinds ==
    {"ClassDef", "DefineDef", "FunctionDef", "EnumDef", "GlobalVarDef", "TypedefDef",
     "WigCode", "PyCodeDef", "PyFunctionDef", "PyClassDef", "CppMethodDef",
     "CppMethodDef_sip"}
ClassKinds ==
    {"MemberVarDef", "TypedefDef", "PropertyDef", "PyPropertyDef", "MethodDef", "EnumDef",
     "CppMethodDef", "CppMethodDef_sip", "PyMethodDef", "PyCodeDef", "WigCode"}
PyClassKinds == {"PyFunctionDef", "PyPropertyDef", "PyCodeDef", "PyClassDef"}

\* the walk comes to a node that is not ignored and whose kind has no handler
UnknownKindReached(m) ==
    \/ \E i \in Range(m.items) : ~Flagged(i) /\ i.kind \notin ModuleKinds
    \/ \E k \in ReachedClasses(m) : \E i \in Range(k.items) :
          /\ ~Flagged(i)
          /\ i.protection \in {"public", "protected"}
          /\ i.kind \notin ClassKinds
    \/ \E pc \in Range(m.items) : \E i \in Range(pc.items) :
          /\ pc.kind = "PyClassDef" /\ ~Flagged(pc)
          /\ ~Flagged(i)
          /\ i.kind \notin PyClassKinds

\* C10: when the walk comes to a node that is not ignored and whose kind has no
\* handler, generate raises instead of skipping the node, and the destination
\* file is neither created nor modified; no run that raises touches the file.
AbortsOnUnknownKind ==
    /\ (status # "idle" /\ UnknownKindReached(module)) => status = "aborted"
    /\ status = "aborted" =>
          /\ fileExists = before.exists
          /\ fileText = before.text
          /\ nCalls = 0

\* a run that raised on a class member after it had written text, with no file
\* there before, and one with a file there
AbortedAfterEmitting ==
    /\ status = "aborted"
    /\ stream # <<>>
    /\ \E k \in ReachedClasses(module) : \E i \in Range(k.items) :
          ~Flagged(i) /\ i.kind \notin ClassKinds
    /\ ~fileExists

\* the enums whose class line the walk wrote
EmittedEnums ==
    {n \in TreeNodes(module) :
        /\ n.kind = "EnumDef"
        /\ \E i \in 1..Len(stream) : stream[i].what = "class" /\ stream[i].id = n.id}

\* what the stream holds for an enum and its members, in the order written: the
\* kind of each line and, for a member line, the member's name
EnumLines(enum) ==
    LET ids == {enum.id} \cup {v.id : v \in Range(enum.items)}
        About(c) == c.id \in ids
        cs == SelectSeq(stream, About)
    IN [i \in 1..Len(cs) |->
          <<cs[i].what, IF cs[i].what \in {"auto", "rebind"} THEN cs[i].name ELSE "">>]

\* one line of the given kind per member that is not ignored, in declaration order
MemberLines(enum, what) ==
    LET Shown(v) == ~Flagged(v)
        vs == SelectSeq(enum.items, Shown)
    IN [i \in 1..Len(vs) |->
          <<what, IF vs[i].pyName # "" THEN vs[i].pyName ELSE vs[i].name>>]

\* C12 (as stated): an anonymous enum emits the hidden enum type with its members
\* and neither an alias line nor a member rebinding line; a named enum emits the
\* alias and one rebinding line per non-ignored member in declaration order.
AnonymousEnumsNotRebound ==
    status = "done" =>
        \A e \in EmittedEnums :
            EnumLines(e) =
                IF IsAnonymousName(e.name)
                THEN <<<<"class", "">>>> \o MemberLines(e, "auto")
                ELSE <<<<"class", "">>>> \o MemberLines(e, "auto")
                        \o <<<<"TypeAlias", "">>>> \o MemberLines(e, "rebind")

\* C12: an anonymous enum emits the hidden enum type with its members, no alias
\* line, and then one rebinding line per non-ignored member in declaration order;
\* a named enum emits the same with the alias line before the rebinding lines.
EnumsRebindMembers ==
    status = "done" =>
        \A e \in EmittedEnums :
            EnumLines(e) =
                <<<<"class", "">>>> \o MemberLines(e, "auto")
                   \o (IF IsAnonymousName(e.name) THEN <<>> ELSE <<<<"TypeAlias", "">>>>)
                   \o MemberLines(e, "rebind")

\* a run that emitted an anonymous enum with a member rebinding line
EmittedAnonymousEnum ==
    /\ status = "done"
    /\ \E e \in EmittedEnums :
          /\ IsAnonymousName(e.name)
          /\ \E i \in 1..Len(stream) :
                stream[i].what = "rebind" /\ stream[i].id \in {v.id : v \in Range(e.items)}
          /\ \E v \in Range(e.items) : Flagged(v)

\* the place in the stream of the first chunk written for the module item at
\* position k, or 0 when nothing was written for it
FirstChunk(k) ==
    LET ids == {n.id : n \in NodesBelow(module.items[k])}
        at == {i \in 1..Len(stream) : stream[i].id \in ids}
    IN IF at = {} THEN 0 ELSE CHOOSE i \in at : \A j \in at : i <= j

IsOrderedPyCode(item) == item.kind = "PyCodeDef" /\ item.order # NoOrder

\* C13: the PyCode items that carry an ordering key are emitted before all other
\* module items and among themselves sorted by that key; the remaining items are
\* emitted after them in their original relative order.
HoistedSortedByOrder ==
    status = "done" =>
        \A a \in 1..Len(module.items), b \in 1..Len(module.items) :
            LET x == module.items[a]
                y == module.items[b]
            IN (FirstChunk(a) > 0 /\ FirstChunk(b) > 0) =>
                  /\ (IsOrderedPyCode(x) /\ ~IsOrderedPyCode(y))
                        => FirstChunk(a) < FirstChunk(b)
                  /\ (IsOrderedPyCode(x) /\ IsOrderedPyCode(y) /\ x.order < y.order)
                        => FirstChunk(a) < FirstChunk(b)
                  /\ (~IsOrderedPyCode(x) /\ ~IsOrderedPyCode(y) /\ a < b)
                        => FirstChunk(a) < FirstChunk(b)

\* the node kinds that are written as a class
ClassLikeKinds == {"ClassDef", "PyClassDef", "TypedefDef"}

\* C14: every class that is emitted, from a C++ class node, a nested class, a
\* PyClassDef or a typedef written as a class, ends with a terminator comment
\* naming that class, placed after everything written for the class's members.
ClassesEndWithTerminator ==
    status = "done" =>
        \A n \in TreeNodes(module), i \in 1..Len(stream) :
            (n.kind \in ClassLikeKinds /\ stream[i].what = "class" /\ stream[i].id = n.id)
            => \E j \in (i + 1)..Len(stream) :
                  /\ stream[j].what = "end of class"
                  /\ stream[j].id = n.id
                  /\ stream[j].name = stream[i].name
                  /\ \A d \in NodesBelow(n), k \in 1..Len(stream) :
                        stream[k].id = d.id => k <= j

-----------------------------------------------------------------------------
(* Properties of the merge writer *)

prevLines == readlines(prevText)

\* line numbers (1-based) of the lines that start with marker
MarkerLines(ls, marker) == {i \in 1..Len(ls) : startswith(ls[i], marker)}

\* the marker line the scan keeps: the last one (0 when there is none)
KeptLine(ls, marker) ==
    IF MarkerLines(ls, marker) = {} THEN 0
    ELSE CHOOSE i \in MarkerLines(ls, marker) : \A j \in MarkerLines(ls, marker) : j <= i

RECURSIVE IsSubseq(_, _)
IsSubseq(s, t) ==
    IF s = <<>> THEN TRUE
    ELSE IF t = <<>> THEN FALSE
    ELSE IF Head(s) = Head(t) THEN IsSubseq(Tail(s), Tail(t))
    ELSE IsSubseq(s, Tail(t))

\* C1: calling writeSection twice in succession with the same arguments leaves the
\* file after the second call byte-identical to the file after the first call,
\* for any prior file content, body and placement.
WriteSectionIdempotent == repeated => fileText = prevText

\* the file held a begin-marker line and a later end-marker line before the last call
HadSection ==
    /\ nCalls > 0
    /\ KeptLine(prevLines, sectionBeginMarker(lastCall.sectionName)) > 0
    /\ KeptLine(prevLines, sectionEndMarker(lastCall.sectionName))
         > KeptLine(prevLines, sectionBeginMarker(lastCall.sectionName))

\* C2: when the file holds a begin-marker line and a later end-marker line, the
\* call changes only what lies strictly between them: the file is the old text up
\* to and including the begin-marker line, the new body, and the old text from the
\* end-marker line on; the begin-marker line is not duplicated.
ReplacesOnlyBetweenMarkers ==
    HadSection =>
        LET b == KeptLine(prevLines, sectionBeginMarker(lastCall.sectionName))
            e == KeptLine(prevLines, sectionEndMarker(lastCall.sectionName))
            newLines == readlines(fileText)
        IN /\ fileText = writelines(SubSeq(prevLines, 1, b))
                            \o lastCall.sectionText
                            \o writelines(SubSeq(prevLines, e, Len(prevLines)))
           /\ SubSeq(newLines, 1, b) = SubSeq(prevLines, 1, b)
           /\ Cardinality(MarkerLines(newLines, sectionBeginMarker(lastCall.sectionName)))
                = Cardinality(MarkerLines(prevLines, sectionBeginMarker(lastCall.sectionName)))
           /\ Cardinality(MarkerLines(newLines, sectionEndMarker(lastCall.sectionName)))
                <= Cardinality(MarkerLines(prevLines, sectionEndMarker(lastCall.sectionName)))

\* a call that replaced a body by a different one between two marker lines
ReplacedChangedBody ==
    /\ HadSection
    /\ fileText # prevText
    /\ lastCall.sectionText # <<>>
    /\ KeptLine(prevLines, sectionEndMarker(lastCall.sectionName))
         > KeptLine(prevLines, sectionBeginMarker(lastCall.sectionName)) + 1

\* the lines of ls that do not lie strictly between the section's two marker lines
OutsideLines(ls, sectionName) ==
    LET b == KeptLine(ls, sectionBeginMarker(sectionName))
        e == KeptLine(ls, sectionEndMarker(sectionName))
    IN IF b > 0 /\ e > b
       THEN SubSeq(ls, 1, b) \o SubSeq(ls, e, Len(ls))
       ELSE ls

\* C3: every line of the prior file that does not lie strictly between the
\* section's begin-marker line and end-marker line is still in the list written
\* back, unmodified and in the same relative order.
PreservesOutsideLines ==
    nCalls > 0 => IsSubseq(OutsideLines(prevLines, lastCall.sectionName), lines)

\* the last call found no begin-marker line in the file
HadNoBeginMarker ==
    /\ nCalls > 0
    /\ MarkerLines(prevLines, sectionBeginMarker(lastCall.sectionName)) = {}

\* C4: with no begin-marker line and placement append, the file is the prior
\* content followed by the begin-marker, the body and the end-marker, and the
\* begin-marker and the end-marker each start a line of their own.
AppendsSectionOnOwnLines ==
    (HadNoBeginMarker /\ lastCall.at_end) =>
        LET bm == sectionBeginMarker(lastCall.sectionName) \o <<NL>>
            em == sectionEndMarker(lastCall.sectionName) \o <<NL>>
            newLines == readlines(fileText)
        IN /\ fileText = prevText \o bm \o lastCall.sectionText \o em
           /\ \E i, j \in 1..Len(newLines) :
                 i < j /\ newLines[i] = bm /\ newLines[j] = em

\* the length of the maximal leading run of lines that start with '#'
CommentRun(ls) ==
    CHOOSE k \in 0..Len(ls) :
        /\ \A i \in 1..k : startswithHash(ls[i])
        /\ k < Len(ls) => ~startswithHash(ls[k + 1])

\* C5: with no begin-marker line and placement insert-after-header, the section is
\* inserted immediately after the maximal leading run of '#' lines, so that no
\* non-comment line of the prior file precedes the begin-marker line.
InsertsRightAfterHeader ==
    (HadNoBeginMarker /\ ~lastCall.at_end) =>
        LET k == CommentRun(prevLines)
        IN fileText = writelines(SubSeq(prevLines, 1, k))
                         \o writelines(NewSection(lastCall.sectionName, lastCall.sectionText))
                         \o writelines(SubSeq(prevLines, k + 1, Len(prevLines)))

\* the text between the only begin-marker line and the only end-marker line of the
\* section (<<"?">> when the file does not hold exactly one of each, in that order)
SectionBody(text, sectionName) ==
    LET ls == readlines(text)
        bs == MarkerLines(ls, sectionBeginMarker(sectionName))
        es == MarkerLines(ls, sectionEndMarker(sectionName))
    IN IF Cardinality(bs) = 1 /\ Cardinality(es) = 1
       THEN LET b == CHOOSE i \in bs : TRUE
                e == CHOOSE i \in es : TRUE
            IN IF b < e THEN writelines(SubSeq(ls, b + 1, e - 1)) ELSE <<"?">>
       ELSE <<"?">>

Written == {s \in SectionNames : bodies[s] # NoBody}

\* C6: after any sequence of writeSection calls that uses two or more section
\* identifiers, the file holds exactly one begin-marker line and one end-marker
\* line per identifier, the text between them is the body most recently written
\* for it, and a call for one identifier leaves the other sections' bodies alone.
SectionsCoexist ==
    Cardinality(Written) >= 2 =>
        /\ \A s \in Written : SectionBody(fileText, s) = bodies[s]
        /\ \A s \in Written \ {lastCall.sectionName} :
              SectionBody(prevText, s) # <<"?">>
                  => SectionBody(fileText, s) = SectionBody(prevText, s)


\* the file held both marker lines before the last call, the end-marker line not
\* after the begin-marker line
HadMisorderedMarkers ==
    /\ nCalls > 0
    /\ KeptLine(prevLines, sectionBeginMarker(lastCall.sectionName)) > 0
    /\ KeptLine(prevLines, sectionEndMarker(lastCall.sectionName)) > 0
    /\ KeptLine(prevLines, sectionEndMarker(lastCall.sectionName))
         <= KeptLine(prevLines, sectionBeginMarker(lastCall.sectionName))

\* C11: when the file contains both markers of the section and the end-marker line
\* is not strictly after the begin-marker line, writeSection rejects the input and
\* leaves the file unchanged.
RejectsMisorderedMarkers == HadMisorderedMarkers => fileText = prevText

====
